---- MODULE Spec2Model ----
(***************************************************************************)
(* A state-machine model of src/pathPlanner.py: heuristic and do_a_star.   *)
(*                                                                         *)
(* A behaviour is a caller that owns one grid, one start and one end cell  *)
(* and calls do_a_star(grid, start, end, display_message) `calls` times in *)
(* a row.  One call is split at its loop heads: the code up to the while   *)
(* loop (Call), one iteration of the main loop (Iterate), one iteration of *)
(* the reconstruction loop (Backtrack) and the two returns (ReturnPath,    *)
(* ReturnEmpty).                                                           *)
(*                                                                         *)
(* Python tuples are TLA+ tuples, so a[0], a[1] of the code are a[1], a[2] *)
(* here; cells keep the code's 0-based coordinates.                        *)
(***************************************************************************)
EXTENDS Integers, Naturals, Sequences, FiniteSets, TLC

VARIABLES grid, start, end,      \* the caller's arguments
          calls,                  \* how many times the caller calls
          rng,                    \* state of the random module's generator
          pc,                     \* position in do_a_star
          open_set, g_scores, parents, path, current,   \* locals of the call
          messages,               \* arguments display_message got, this call
          stdout,                 \* what print wrote, this call
          returned,               \* history: the value each call returned
          drawn,                  \* history: the random points of each call
          frames                  \* history: the locals at each return

\* What a call leaves alone: the caller's data.
inputs == <<grid, start, end, calls>>

vars == <<grid, start, end, calls, rng, pc, open_set, g_scores, parents, path,
          current, messages, stdout, returned, drawn, frames>>

(***************************************************************************)
(* Bounds of the model.                                                    *)
(***************************************************************************)
NumRows == 3        \* len(grid) of the grids explored
NumCols == 5        \* len(grid[0]) of the grids explored
MaxWall == 3        \* the obstacle of a grid is a wall of at most this length

(***************************************************************************)
(* Inputs.  A grid is free but for one straight wall of obstacle cells,    *)
(* which runs along a row or along a column.                               *)
(***************************************************************************)
Rows == 0 .. NumRows - 1
Cols == 0 .. NumCols - 1
Cells == Rows \X Cols

\* The walls of length len.
Walls(len) ==
    {{<<c[1], c[2] + i>> : i \in 0 .. len - 1} :
         c \in Rows \X (0 .. NumCols - len)}
    \cup
    {{<<c[1] + i, c[2]>> : i \in 0 .. len - 1} :
         c \in (0 .. NumRows - len) \X Cols}

\* The grid with exactly the cells of B set to 0 and every other cell to 1.
GridOf(B) == [r \in Rows |-> [c \in Cols |-> IF <<r, c>> \in B THEN 0 ELSE 1]]

Grids == {GridOf(B) : B \in UNION {Walls(len) : len \in 0 .. MaxWall}}

\* The grids whose wall is one cell short of the longest.
LongWallGrids == {GridOf(B) : B \in Walls(MaxWall - 1)}

\* COL = len(grid) and ROW = len(grid[0]), with the code's (swapped) names.
COL == Cardinality(DOMAIN grid)
ROW == Cardinality(DOMAIN grid[0])

\* Python's None, as the one tuple that is no cell.
None == <<>>

(***************************************************************************)
(* Floats.  Every float the code computes is n + sqrt(d) for naturals n    *)
(* and d; it is kept as the pair <<n, d>> and compared exactly.            *)
(***************************************************************************)
\* ((a[0] - b[0])**2 + (a[1] - b[1])**2)**0.5
heuristic(a, b) ==
    <<0, (a[1] - b[1]) * (a[1] - b[1]) + (a[2] - b[2]) * (a[2] - b[2])>>

\* n + x for an int n and a float x
FloatAdd(n, x) == <<n + x[1], x[2]>>

\* x < y, that is x[1] + sqrt(x[2]) < y[1] + sqrt(y[2])
FloatLess(x, y) ==
    LET k == y[1] - x[1]
        a == x[2]
        b == y[2]
    IN  IF a >= b
        THEN /\ k > 0
             /\ LET m == a - k * k - b
                IN  m < 0 \/ m * m < 4 * k * k * b
        ELSE \/ k >= 0
             \/ LET m == b - k * k - a
                IN  m > 0 /\ m * m > 4 * k * k * a

\* x == y
FloatEq(x, y) == ~FloatLess(x, y) /\ ~FloatLess(y, x)

(***************************************************************************)
(* random.randint: the module-level generator is a deterministic sequence  *)
(* started from a hidden state; a draw advances the state.                 *)
(***************************************************************************)
NextRandom(s) == (13 * s + 7) % 64

randint(s, lo, hi) == lo + (NextRandom(s) % (hi - lo + 1))

\* for i in range(1, 10): path.append((randint(0, COL-1), randint(0, ROW-1)))
\* The result is <<path, generator state>>.
RECURSIVE RandomPoints(_, _, _)
RandomPoints(i, p, s) ==
    IF i >= 10 THEN <<p, s>>
    ELSE LET s1 == NextRandom(s)
             s2 == NextRandom(s1)
             pt == <<randint(s, 0, COL - 1), randint(s1, 0, ROW - 1)>>
         IN  RandomPoints(i + 1, Append(p, pt), s2)

(***************************************************************************)
(* Lists and dicts.                                                        *)
(***************************************************************************)
movements == << <<0, 1>>, <<1, 0>>, <<0, -1>>, <<-1, 0>> >>

\* Equality of two open-set tuples (f_score, g_score, node, parent).
EntryEq(x, y) ==
    FloatEq(x[1], y[1]) /\ x[2] = y[2] /\ x[3] = y[3] /\ x[4] = y[4]

\* max for min: the first entry whose f_score no other entry is above.
MinIndex_Max(os) ==
    CHOOSE i \in 1 .. Len(os) :
        /\ \A j \in 1 .. Len(os) : ~FloatLess(os[i][1], os[j][1])
        /\ \A j \in 1 .. (i - 1) : FloatLess(os[j][1], os[i][1])

\* Index of min(open_set, key=lambda x: x[0]): the first entry whose
\* f_score no other entry is below.
MinIndex(os) ==
    CHOOSE i \in 1 .. Len(os) :
        /\ \A j \in 1 .. Len(os) : ~FloatLess(os[j][1], os[i][1])
        /\ \A j \in 1 .. (i - 1) : FloatLess(os[i][1], os[j][1])

\* list.remove left out: the dequeued entry stays in the open set.
ListRemove_Nothing(os, x) == os

\* list.remove(x): the list without its first element equal to x.
ListRemove(os, x) ==
    LET i == CHOOSE i \in 1 .. Len(os) :
                 /\ EntryEq(os[i], x)
                 /\ \A j \in 1 .. (i - 1) : ~EntryEq(os[j], x)
    IN  [j \in 1 .. (Len(os) - 1) |-> IF j < i THEN os[j] ELSE os[j + 1]]

\* list.reverse left out.
Reverse_Nothing(s) == s

\* list.reverse()
Reverse(s) == [i \in 1 .. Len(s) |-> s[Len(s) + 1 - i]]

\* d[k] = v
DictSet(d, k, v) == [x \in DOMAIN d \cup {k} |-> IF x = k THEN v ELSE d[x]]

EmptyDict == [x \in {} |-> 0]

(***************************************************************************)
(* The body of the for loop over movements, for one offset.  st holds the  *)
(* three structures the loop updates.                                      *)
(***************************************************************************)
\* The walkability test without the obstacle test.
Walkable_AnyValue(neighbor) ==
    /\ 0 <= neighbor[1] /\ neighbor[1] < COL
    /\ 0 <= neighbor[2] /\ neighbor[2] < ROW

\* 0 <= neighbor[0] < COL and 0 <= neighbor[1] < ROW and grid[..][..] == 1
Walkable(neighbor) ==
    /\ 0 <= neighbor[1] /\ neighbor[1] < COL
    /\ 0 <= neighbor[2] /\ neighbor[2] < ROW
    /\ grid[neighbor[1]][neighbor[2]] = 1

\* The relaxation test with <= for <.
Better_OrEqual(gs, neighbor, tentative_g) ==
    \/ neighbor \notin DOMAIN gs
    \/ tentative_g <= gs[neighbor]

\* neighbor not in g_scores or tentative_g < g_scores[neighbor]
Better(gs, neighbor, tentative_g) ==
    \/ neighbor \notin DOMAIN gs
    \/ tentative_g < gs[neighbor]

Relax(st, cur, current_g, d) ==
    LET neighbor == <<cur[1] + d[1], cur[2] + d[2]>>
        tentative_g == current_g + 1
        f_score == FloatAdd(tentative_g, heuristic(neighbor, end))
    IN  IF Walkable(neighbor) /\ Better(st.g_scores, neighbor, tentative_g)
        THEN [g_scores |-> DictSet(st.g_scores, neighbor, tentative_g),
              parents  |-> DictSet(st.parents, neighbor, cur),
              open_set |-> Append(st.open_set,
                                  <<f_score, tentative_g, neighbor, cur>>)]
        ELSE st

\* for dx, dy in movements: ...   (offsets i .. 4; x is st after offset i,
\* and the CHOOSE picks the one value of the rest of the loop)
RECURSIVE Expand(_, _, _, _)
Expand(st, cur, current_g, i) ==
    IF i > Len(movements) THEN st
    ELSE CHOOSE r \in
             {Expand(x, cur, current_g, i + 1) :
                  x \in {Relax(st, cur, current_g, movements[i])}} : TRUE

(***************************************************************************)
(* Messages.                                                               *)
(***************************************************************************)
MsgCreated == <<"Created random path points">>
MsgStart(s) == <<"Start location is ", s>>
MsgFound == <<"Path found!">>
MsgNotFound == <<"No path found!">>

(***************************************************************************)
(* Initial states: the caller holds its arguments and has not called yet.  *)
(* The generator of the random module is in its start state.               *)
(***************************************************************************)
InitWith(G, n) ==
    /\ grid \in G
    /\ start \in Cells
    /\ end \in Cells
    /\ calls = n
    /\ rng = 0
    /\ returned = <<>>
    /\ drawn = <<>>
    /\ frames = <<>>
    /\ pc = "idle"
    /\ open_set = <<>>
    /\ g_scores = EmptyDict
    /\ parents = EmptyDict
    /\ path = <<>>
    /\ current = None
    /\ messages = <<>>
    /\ stdout = <<>>

\* One call.
Init == InitWith(Grids, 1)

\* The call and a repetition of it.
InitRepeat == InitWith(Grids, 2)

\* One call on a grid with a long wall.
InitLongWall == InitWith(LongWallGrids, 1)

(***************************************************************************)
(* do_a_star, lines 31-60: the locals, the random points, the two start    *)
(* messages.  A call starts from a fresh frame.                            *)
(***************************************************************************)
SeedEntry == <<<<0, 0>>, 0, start, None>>

Call ==
    /\ pc \in {"idle", "done"}
    /\ Len(returned) < calls
    /\ open_set' = <<SeedEntry>>
    /\ g_scores' = DictSet(EmptyDict, start, 0)
    /\ parents' = EmptyDict
    /\ LET rp == RandomPoints(1, <<>>, rng)
       IN  /\ path' = rp[1]
           /\ rng' = rp[2]
           /\ drawn' = Append(drawn, rp[1])
    /\ messages' = <<MsgCreated, MsgStart(start)>>
    /\ stdout' = <<>>
    /\ current' = None
    /\ pc' = "loop"
    /\ UNCHANGED <<inputs, returned, frames>>

(***************************************************************************)
(* One iteration of `while open_set:`, lines 69-108.  e is the tuple min    *)
(* returns, e[2] is current_g and e[3] is current; rest is the open set    *)
(* after the remove; st holds the structures after the for loop.           *)
(***************************************************************************)
Iterate ==
    /\ pc = "loop"
    /\ open_set # <<>>
    /\ \E e \in {open_set[MinIndex(open_set)]} :
       \E rest \in {ListRemove(open_set, e)} :
           IF e[3] = end
           THEN /\ path' = <<>>
                /\ current' = e[3]
                /\ open_set' = rest
                /\ pc' = "reconstruct"
                /\ UNCHANGED <<g_scores, parents>>
           ELSE \E st \in {Expand([open_set |-> rest, g_scores |-> g_scores,
                                   parents |-> parents], e[3], e[2], 1)} :
                    /\ open_set' = st.open_set
                    /\ g_scores' = st.g_scores
                    /\ parents' = st.parents
                    /\ current' = e[3]
                    /\ pc' = "loop"
                    /\ UNCHANGED path
    /\ UNCHANGED <<inputs, rng, messages, stdout, returned, drawn, frames>>

(***************************************************************************)
(* One iteration of `while current in parents:`, lines 77-79.              *)
(***************************************************************************)
Backtrack ==
    /\ pc = "reconstruct"
    /\ current \in DOMAIN parents
    /\ path' = Append(path, current)
    /\ current' = parents[current]
    /\ UNCHANGED <<inputs, rng, pc, open_set, g_scores, parents, messages,
                   stdout, returned, drawn, frames>>

\* The search structures of the running call.
Frame == [open_set |-> open_set, g_scores |-> g_scores, parents |-> parents]

\* ReturnPath without path.append(start).
ReturnPath_NoStart ==
    /\ pc = "reconstruct"
    /\ current \notin DOMAIN parents
    /\ path' = Reverse(path)
    /\ stdout' = Append(stdout, <<"Reconstructed Path: ", path'>>)
    /\ messages' = Append(messages, MsgFound)
    /\ returned' = Append(returned, path')
    /\ frames' = Append(frames, Frame)
    /\ pc' = "done"
    /\ UNCHANGED <<inputs, rng, open_set, g_scores, parents, current, drawn>>

(***************************************************************************)
(* Lines 80-86: the reconstruction loop is over; return the path.          *)
(***************************************************************************)
ReturnPath ==
    /\ pc = "reconstruct"
    /\ current \notin DOMAIN parents
    /\ path' = Reverse(Append(path, start))
    /\ stdout' = Append(stdout, <<"Reconstructed Path: ", path'>>)
    /\ messages' = Append(messages, MsgFound)
    /\ returned' = Append(returned, path')
    /\ frames' = Append(frames, Frame)
    /\ pc' = "done"
    /\ UNCHANGED <<inputs, rng, open_set, g_scores, parents, current, drawn>>

\* ReturnEmpty without its display_message call.
ReturnEmpty_Silent ==
    /\ pc = "loop"
    /\ open_set = <<>>
    /\ returned' = Append(returned, <<>>)
    /\ frames' = Append(frames, Frame)
    /\ pc' = "done"
    /\ UNCHANGED <<inputs, rng, open_set, g_scores, parents, path, current,
                   stdout, drawn, messages>>

\* ReturnEmpty with `return path` for `return []`.
ReturnEmpty_ReturnsPath ==
    /\ pc = "loop"
    /\ open_set = <<>>
    /\ messages' = Append(messages, MsgNotFound)
    /\ returned' = Append(returned, path)
    /\ frames' = Append(frames, Frame)
    /\ pc' = "done"
    /\ UNCHANGED <<inputs, rng, open_set, g_scores, parents, path, current,
                   stdout, drawn>>

(***************************************************************************)
(* Lines 110-112: the open set is empty; return the empty list.            *)
(***************************************************************************)
ReturnEmpty ==
    /\ pc = "loop"
    /\ open_set = <<>>
    /\ messages' = Append(messages, MsgNotFound)
    /\ returned' = Append(returned, <<>>)
    /\ frames' = Append(frames, Frame)
    /\ pc' = "done"
    /\ UNCHANGED <<inputs, rng, open_set, g_scores, parents, path, current,
                   stdout, drawn>>

Next == Call \/ Iterate \/ Backtrack \/ ReturnPath \/ ReturnEmpty

Spec == Init /\ [][Next]_vars

RepeatSpec == InitRepeat /\ [][Next]_vars

\* The call is one thread that runs without suspension: a step that can be
\* taken is taken.
FairSpec == InitLongWall /\ [][Next]_vars /\ WF_vars(Next)

(***************************************************************************)
(* Vocabulary of the properties.                                           *)
(***************************************************************************)
\* The value the last call returned.
Result == returned[Len(returned)]

InGrid(c) == c[1] \in DOMAIN grid /\ c[2] \in DOMAIN grid[0]

Free(c) == InGrid(c) /\ grid[c[1]][c[2]] = 1

Offsets == {<<0, 1>>, <<1, 0>>, <<0, -1>>, <<-1, 0>>}

StepsFrom(c) == {<<c[1] + d[1], c[2] + d[2]>> : d \in Offsets}

\* Breadth-first search: the least number of 4-connected steps, each into a
\* Free cell, that lead from start to end; -1 when there is no such walk.
RECURSIVE BfsLevel(_, _, _)
BfsLevel(frontier, seen, d) ==
    IF end \in frontier THEN d
    ELSE LET nxt == {n \in UNION {StepsFrom(c) : c \in frontier} :
                        Free(n) /\ n \notin seen}
         IN  IF nxt = {} THEN -1 ELSE BfsLevel(nxt, seen \cup nxt, d + 1)

BfsDistance == BfsLevel({start}, {start}, 0)

Manhattan(a, b) ==
    (IF a[1] >= b[1] THEN a[1] - b[1] ELSE b[1] - a[1])
    + (IF a[2] >= b[2] THEN a[2] - b[2] ELSE b[2] - a[2])

\* Some entry of the open set carries a g_score above the recorded one.
StaleEntry ==
    \E i \in 1 .. Len(open_set) : open_set[i][2] > g_scores[open_set[i][3]]

(***************************************************************************)
(* C1: when start and end are Free and end can be reached from start, the  *)
(* returned path is not empty and has exactly the breadth-first-search     *)
(* number of steps.                                                        *)
(***************************************************************************)
C1_ShortestPath ==
    (pc = "done" /\ Free(start) /\ Free(end) /\ BfsDistance >= 0)
        => /\ Result # <<>>
           /\ Len(Result) - 1 = BfsDistance

\* A shortest path that obstacles force off every straight route.
C1_Witness ==
    /\ pc = "done" /\ Free(start) /\ Free(end)
    /\ Result # <<>>
    /\ Len(Result) - 1 = BfsDistance
    /\ BfsDistance > Manhattan(start, end)

(***************************************************************************)
(* C2: a returned non-empty path starts at start, ends at end, moves by    *)
(* one of the four offsets at a time and, after its first cell, stays on   *)
(* Free cells of the grid.                                                 *)
(***************************************************************************)
C2_PathWellFormed ==
    (pc = "done" /\ Result # <<>>)
        => /\ Result[1] = start
           /\ Result[Len(Result)] = end
           /\ \A i \in 1 .. (Len(Result) - 1) :
                  <<Result[i + 1][1] - Result[i][1],
                    Result[i + 1][2] - Result[i][2]>> \in Offsets
           /\ \A i \in 2 .. Len(Result) : Free(Result[i])

\* A path with a turn in it that leaves a Blocked start cell.
C2_Witness ==
    /\ pc = "done"
    /\ Len(Result) >= 4
    /\ ~Free(start)
    /\ Result[1][1] # Result[Len(Result)][1]
    /\ Result[1][2] # Result[Len(Result)][2]

(***************************************************************************)
(* C3: when end cannot be reached from start by 4-connected steps into     *)
(* Free cells, the call returns the empty list, with the open set          *)
(* exhausted and no reconstruction begun.                                  *)
(***************************************************************************)
C3_UnreachableGivesEmpty ==
    /\ (pc = "done" /\ BfsDistance = -1)
           => (Result = <<>> /\ open_set = <<>> /\ current # end)
    /\ (pc = "reconstruct") => BfsDistance >= 0

\* Start and end are both Free, yet walled off from each other.
C3_Witness ==
    /\ pc = "done" /\ Free(start) /\ Free(end)
    /\ BfsDistance = -1
    /\ Result = <<>>
    /\ Cardinality(DOMAIN g_scores) >= 2

(***************************************************************************)
(* C4: a Blocked start or a Blocked end, with start # end, gives the empty *)
(* list.                                                                   *)
(***************************************************************************)
C4_BlockedEndpointGivesEmpty ==
    (pc = "done" /\ start # end /\ (~Free(start) \/ ~Free(end)))
        => Result = <<>>

(***************************************************************************)
(* C5: with start = end the call returns [start]; it does so in its first  *)
(* iteration (the seed entry is the only one ever dequeued) and without    *)
(* relaxing a neighbor.                                                    *)
(***************************************************************************)
C5_StartIsGoal ==
    /\ (pc = "done" /\ start = end)
           => /\ Result = <<start>>
              /\ open_set = <<>>
              /\ DOMAIN g_scores = {start}
              /\ DOMAIN parents = {}
    /\ (pc = "loop" /\ start = end) => open_set = <<SeedEntry>>

\* The single-cell path on a Blocked cell.
C5_Witness ==
    /\ pc = "done" /\ start = end /\ ~Free(start)
    /\ Result = <<start>>

(***************************************************************************)
(* C6 as stated: one reporter call at search start, one at the end.        *)
(***************************************************************************)
C6_OneStartMessage ==
    /\ (pc \in {"loop", "reconstruct"}) => Len(messages) = 1
    /\ (pc = "done") => Len(messages) = 2

(***************************************************************************)
(* C6 amended: the reporter is called exactly twice before the first       *)
(* dequeue, not again until the call ends, and exactly once at the end:    *)
(* with "Path found!" exactly when a path is returned and with             *)
(* "No path found!" exactly when the empty list is returned.               *)
(***************************************************************************)
C6_Messages ==
    /\ (pc \in {"loop", "reconstruct"})
           => messages = <<MsgCreated, MsgStart(start)>>
    /\ (pc = "done")
           => /\ Len(messages) = 3
              /\ SubSeq(messages, 1, 2) = <<MsgCreated, MsgStart(start)>>
              /\ messages[3] \in {MsgFound, MsgNotFound}
              /\ (messages[3] = MsgFound) <=> (Result # <<>>)
              /\ (messages[3] = MsgNotFound) <=> (Result = <<>>)

\* A call that ended with the failure message after a search.
C6_Witness ==
    /\ pc = "done"
    /\ messages[3] = MsgNotFound
    /\ Cardinality(DOMAIN g_scores) >= 3

(***************************************************************************)
(* C7: every call on the same grid, start and end returns the same value   *)
(* and leaves the same open set, g_scores and parents, whatever random     *)
(* points each call drew; no random point is handed back.                  *)
(***************************************************************************)
C7_Deterministic ==
    \A i, j \in 1 .. Len(returned) :
        /\ returned[i] = returned[j]
        /\ frames[i] = frames[j]

\* Two calls have returned a path after drawing different random points.
C7_Witness ==
    /\ Len(returned) = 2
    /\ drawn[1] # drawn[2]
    /\ Len(drawn[1]) = 9
    /\ returned[2] # <<>>

(***************************************************************************)
(* C8: every call returns.  The reconstruction loop stops because start    *)
(* has no parent and every parent has a smaller g_score than its child;    *)
(* the main loop stops because an iteration appends a cell only when the   *)
(* cell is new to g_scores or its g_score strictly drops.                  *)
(***************************************************************************)
AppendedOnlyOnImprovement ==
    (pc = "loop" /\ pc' = "loop" /\ open_set # <<>>) =>
        \A i \in 1 .. Len(open_set') :
            (i >= Len(open_set)) =>
                LET n == open_set'[i][3]
                IN  /\ g_scores'[n] = open_set'[i][2]
                    /\ n \notin DOMAIN g_scores \/ g_scores'[n] < g_scores[n]

ParentsAcyclic ==
    /\ start \notin DOMAIN parents
    /\ \A c \in DOMAIN parents :
           /\ parents[c] \in DOMAIN g_scores
           /\ g_scores[parents[c]] < g_scores[c]

C8_Terminates ==
    /\ (pc \in {"loop", "reconstruct"}) ~> (pc = "done")
    /\ []ParentsAcyclic
    /\ [][AppendedOnlyOnImprovement]_vars

\* A call that ran both loops several times has returned.
C8_Witness ==
    /\ pc = "done"
    /\ Len(Result) >= 5
    /\ Cardinality(DOMAIN g_scores) >= 8

(***************************************************************************)
(* C9 as stated: every open-set entry agrees with g_scores and parents.    *)
(***************************************************************************)
C9_NoStaleEntry ==
    \A i \in 1 .. Len(open_set) :
        /\ open_set[i][2] = g_scores[open_set[i][3]]
        /\ open_set[i][3] # start => open_set[i][4] = parents[open_set[i][3]]

(***************************************************************************)
(* C9 amended: every open-set entry (f, g, cell, parent) has               *)
(* g >= g_scores[cell]; an entry with g = g_scores[cell] and cell # start  *)
(* has parent = parents[cell]; an entry with a larger g is a stale entry   *)
(* that stays in the open set until it is dequeued.                        *)
(***************************************************************************)
C9_EntriesNeverBelowBest ==
    \A i \in 1 .. Len(open_set) :
        LET e == open_set[i]
        IN  /\ e[3] \in DOMAIN g_scores
            /\ e[2] >= g_scores[e[3]]
            /\ (e[2] = g_scores[e[3]] /\ e[3] # start) => e[4] = parents[e[3]]
            /\ FloatEq(e[1], FloatAdd(e[2], heuristic(e[3], end)))
                   \/ e = SeedEntry

\* The open set holds a stale entry next to the improved one.
C9_Witness ==
    /\ pc = "loop"
    /\ StaleEntry
    /\ \E i \in 1 .. Len(open_set) :
           /\ open_set[i][2] = g_scores[open_set[i][3]]
           /\ \E j \in 1 .. (i - 1) :
                  /\ open_set[j][3] = open_set[i][3]
                  /\ open_set[j][2] > open_set[i][2]

(***************************************************************************)
(* C10: the open set starts as the single entry for start, with            *)
(* g_score 0 and f_score heuristic(start, end).                            *)
(***************************************************************************)
C10_SeedEntry ==
    (\E i \in 1 .. Len(open_set) : open_set[i][4] = None)
        => /\ Len(open_set) = 1
           /\ open_set[1][3] = start
           /\ open_set[1][2] = 0
           /\ FloatEq(open_set[1][1], heuristic(start, end))

====
